---- MODULE Spec2Model ----
(***************************************************************************)
(* RESTClient (pkg/client/restclient.go): construction of the client, the  *)
(* verb-scoped request builders it hands out, and the completion-polling   *)
(* protocol that DefaultPoll drives between a request and the "operations" *)
(* collection of the server.                                               *)
(*                                                                         *)
(* A URL is the record of the url.URL fields the client touches; a path is *)
(* a sequence of characters.  Durations are counted in seconds.            *)
(***************************************************************************)
EXTENDS Integers, Sequences, FiniteSets, TLC

(* ------------------------------------------------------------------ *)
(* Bounds and input sets                                              *)
(* ------------------------------------------------------------------ *)

\* longest path of a base address handed to NewRESTClient
MaxPathLen == 3
\* longest poll period (seconds) a caller sets on the client
MaxPollPeriod == 2
\* most poll requests one call chain issues before the server is made to settle
MaxPolls == 2
\* largest timeout (seconds) a caller sets on the client
MaxTimeout == 1

\* time.Second * 2, the poll period NewRESTClient installs
DefaultPollPeriod == 2

Sep == "/"
Chars == {"a", Sep}
Paths == UNION {[1..n -> Chars] : n \in 0..MaxPathLen}
Queries == {"", "q=1"}
Fragments == {"", "frag"}
URLs == [Host : {"host"}, Path : Paths, RawQuery : Queries, Fragment : Fragments]
Versions == {"v1", "v2"}
Codecs == {"codec"}
Verbs == {"GET", "POST", "PUT", "DELETE"}
OpNames == {"op1", "op2"}
Errors == {"err1", "err2"}
PollPeriods == 0..MaxPollPeriod
Timeouts == 0..MaxTimeout
\* a poll function supplied by the caller in place of DefaultPoll
CustomPollers == {"CustomPoll"}
\* one call chain with every verb and builder option; two interleaved chains
OneCall == {"c1"}
TwoCalls == {"c1", "c2"}
Calls == TwoCalls

(* ------------------------------------------------------------------ *)
(* strings.HasSuffix on paths                                         *)
(* ------------------------------------------------------------------ *)

HasSuffix(s, suffix) ==
    /\ Len(s) >= Len(suffix)
    /\ SubSeq(s, Len(s) - Len(suffix) + 1, Len(s)) = suffix

(* ------------------------------------------------------------------ *)
(* The request builder (pkg/client/request.go)                        *)
(* ------------------------------------------------------------------ *)

NoRequest == [nil |-> TRUE]

NewRequest(client, verb, baseURL, codec, namespaceInQuery, preserveResourceCase) ==
    [client |-> client, verb |-> verb, baseURL |-> baseURL, codec |-> codec,
     namespaceInQuery |-> namespaceInQuery,
     preserveResourceCase |-> preserveResourceCase,
     resource |-> "", resourceName |-> "",
     poller |-> "nil", sync |-> FALSE, timeout |-> 0]

Resource(r, resource) == [r EXCEPT !.resource = resource]

Name(r, resourceName) == [r EXCEPT !.resourceName = resourceName]

Poller(r, poller) == [r EXCEPT !.poller = poller]

NoPoll(r) == Poller(r, "nil")

Sync(r, sync) == [r EXCEPT !.sync = sync]

Timeout(r, d) == [r EXCEPT !.timeout = d]

(* ------------------------------------------------------------------ *)
(* RESTClient                                                         *)
(* ------------------------------------------------------------------ *)

NoClient == [nil |-> TRUE]

\* the separator test taken for a prefix test: "/a" is left without its slash
NewRESTClientPrefixTest(baseURL, apiVersion, c, legacyBehavior) ==
    LET base == baseURL
        base1 == IF ~(Len(base.Path) > 0 /\ Head(base.Path) = Sep)
                 THEN [base EXCEPT !.Path = @ \o <<Sep>>]
                 ELSE base
    IN  [baseURL |-> [base1 EXCEPT !.RawQuery = "", !.Fragment = ""],
         apiVersion |-> apiVersion, Codec |-> c, LegacyBehavior |-> legacyBehavior,
         Client |-> "nil", Poller |-> "nil", Sync |-> FALSE,
         PollPeriod |-> DefaultPollPeriod, Timeout |-> 0]

\* line 73 left out: the fragment survives
NewRESTClientKeepFragment(baseURL, apiVersion, c, legacyBehavior) ==
    LET base == baseURL
        base1 == IF ~HasSuffix(base.Path, <<Sep>>)
                 THEN [base EXCEPT !.Path = @ \o <<Sep>>]
                 ELSE base
    IN  [baseURL |-> [base1 EXCEPT !.RawQuery = ""],
         apiVersion |-> apiVersion, Codec |-> c, LegacyBehavior |-> legacyBehavior,
         Client |-> "nil", Poller |-> "nil", Sync |-> FALSE,
         PollPeriod |-> DefaultPollPeriod, Timeout |-> 0]

\* the test of line 69 left out: a slash is appended to every path
NewRESTClientAlwaysAppends(baseURL, apiVersion, c, legacyBehavior) ==
    [baseURL |-> [baseURL EXCEPT !.Path = @ \o <<Sep>>, !.RawQuery = "", !.Fragment = ""],
     apiVersion |-> apiVersion, Codec |-> c, LegacyBehavior |-> legacyBehavior,
     Client |-> "nil", Poller |-> "nil", Sync |-> FALSE,
     PollPeriod |-> DefaultPollPeriod, Timeout |-> 0]

\* line 77 left out of the literal: apiVersion keeps its zero value
NewRESTClientVersionUnset(baseURL, apiVersion, c, legacyBehavior) ==
    LET base == baseURL
        base1 == IF ~HasSuffix(base.Path, <<Sep>>)
                 THEN [base EXCEPT !.Path = @ \o <<Sep>>]
                 ELSE base
    IN  [baseURL |-> [base1 EXCEPT !.RawQuery = "", !.Fragment = ""],
         apiVersion |-> "", Codec |-> c, LegacyBehavior |-> legacyBehavior,
         Client |-> "nil", Poller |-> "nil", Sync |-> FALSE,
         PollPeriod |-> DefaultPollPeriod, Timeout |-> 0]

NewRESTClient(baseURL, apiVersion, c, legacyBehavior) ==
    LET base == baseURL
        base1 == IF ~HasSuffix(base.Path, <<Sep>>)
                 THEN [base EXCEPT !.Path = @ \o <<Sep>>]
                 ELSE base
        base2 == [base1 EXCEPT !.RawQuery = ""]
        base3 == [base2 EXCEPT !.Fragment = ""]
    IN  [baseURL |-> base3,
         apiVersion |-> apiVersion,
         Codec |-> c,
         LegacyBehavior |-> legacyBehavior,
         Client |-> "nil",
         Poller |-> "nil",
         Sync |-> FALSE,
         PollPeriod |-> DefaultPollPeriod,
         Timeout |-> 0]

\* Sync(c.Sync) left out of the chain of line 113
VerbWithoutSync(c, verb) ==
    LET poller == IF c.Poller = "nil" THEN "DefaultPoll" ELSE c.Poller
    IN  Timeout(Poller(NewRequest(c.Client, verb, c.baseURL, c.Codec,
                                  c.LegacyBehavior, c.LegacyBehavior),
                       poller),
                c.Timeout)

\* lines 109-112 left out: DefaultPoll installed whatever c.Poller is
VerbWithoutOverride(c, verb) ==
    Timeout(Sync(Poller(NewRequest(c.Client, verb, c.baseURL, c.Codec,
                                   c.LegacyBehavior, c.LegacyBehavior),
                        "DefaultPoll"),
                 c.Sync),
            c.Timeout)

Verb(c, verb) ==
    LET poller == IF c.Poller = "nil" THEN "DefaultPoll" ELSE c.Poller
    IN  Timeout(Sync(Poller(NewRequest(c.Client, verb, c.baseURL, c.Codec,
                                       c.LegacyBehavior, c.LegacyBehavior),
                            poller),
                     c.Sync),
                c.Timeout)

Post(c) == Verb(c, "POST")

Put(c) == Verb(c, "PUT")

Get(c) == Verb(c, "GET")

Delete(c) == Verb(c, "DELETE")

\* Sync(false) left out: the lookup inherits the client's sync flag
OperationKeepSync(c, name) == NoPoll(Name(Resource(Get(c), "operations"), name))

Operation(c, name) == NoPoll(Sync(Name(Resource(Get(c), "operations"), name), FALSE))

\* the test of line 143 written as "< 0"
DefaultPollDisabledBelowZero(c) == c.PollPeriod < 0

\* the period tested is the one installed at construction, not the field
DefaultPollDisabledAtConstruction(c) == DefaultPollPeriod = 0

\* line 143: polling is disabled when the period is zero
DefaultPollDisabled(c) == c.PollPeriod = 0

\* line 147: the duration handed to time.Sleep
DefaultPollDelay(c) == c.PollPeriod

\* the poll request built without the operation name
DefaultPollRequestUnnamed(c, name) == Poller(Operation(c, ""), "DefaultPoll")

\* Poller(c.DefaultPoll) left out of line 149: the lookup keeps NoPoll
DefaultPollRequestNoPoller(c, name) == Operation(c, name)

\* line 149: the poll request DefaultPoll returns
DefaultPollRequest(c, name) == Poller(Operation(c, name), "DefaultPoll")

APIVersion(c) == c.apiVersion

(* ------------------------------------------------------------------ *)
(* Request.Do: what the terminal execution method does with a response *)
(* ------------------------------------------------------------------ *)

NoResponse == [kind |-> "none", val |-> ""]
Final == [kind |-> "final", val |-> "object"]
Working(id) == [kind |-> "working", val |-> id]
Failure(e) == [kind |-> "error", val |-> e]
Responses == {Final} \cup {Working(id) : id \in OpNames} \cup {Failure(e) : e \in Errors}

\* an error answered by another poll
ShouldPollOnError(r, resp) ==
    resp.kind \in {"working", "error"} /\ ~r.sync /\ r.poller # "nil"

\* the poller is asked only about an in-progress status of an asynchronous request
ShouldPoll(r, resp) == resp.kind = "working" /\ ~r.sync /\ r.poller # "nil"

\* the state a chain ends in when the response is handed back to the caller
Outcome(resp) ==
    CASE resp.kind = "final" -> "Complete"
      [] resp.kind = "error" -> "Failed"
      [] OTHER -> "Returned"

(* ------------------------------------------------------------------ *)
(* State                                                              *)
(* ------------------------------------------------------------------ *)

VARIABLES
    args,     \* the arguments of NewRESTClient; args.baseURL is the caller's URL
    client,   \* the RESTClient, NoClient before construction
    call      \* per call chain: the builder, the position in Do and in the poller

vars == <<args, client, call>>

NoReturn == [req |-> NoRequest, ok |-> FALSE, none |-> TRUE]
PollReturn(req, ok) == [req |-> req, ok |-> ok]

IdleCall ==
    [pc |-> "Idle",          \* Idle, Built, Issued, Polling, Waiting, Sleeping,
                             \* Complete, Returned, Stopped, Failed
     req |-> NoRequest,      \* the request Do is working on
     id |-> "",              \* the operation name handed to the poller
     out |-> 0,              \* requests sent and not yet answered
     polls |-> 0,            \* poll requests issued so far
     resp |-> NoResponse,    \* the last response received
     result |-> NoResponse,  \* what Do returned to the caller
     ret |-> NoReturn,       \* what the last poller invocation returned
     checked |-> -1,         \* PollPeriod as read by the test of line 143
     period |-> -1,          \* the duration handed to time.Sleep at line 147
     elapsed |-> 0,          \* time slept in the current invocation
     csync |-> FALSE,        \* Client.Sync when the builder was made by Verb
     tuned |-> FALSE]        \* the caller chained Sync(...) on the builder

Args == [baseURL : URLs, apiVersion : Versions, c : Codecs, legacyBehavior : BOOLEAN]

\* the arguments the polling protocol is exercised with: a bare path carrying a
\* query and a fragment, and a slash-terminated path carrying neither
FewArgs ==
    {a \in Args :
        \/ /\ a.baseURL.Path = <<"a">> /\ a.baseURL.RawQuery # "" /\ a.baseURL.Fragment # ""
           /\ a.apiVersion = "v1" /\ ~a.legacyBehavior
        \/ /\ a.baseURL.Path = <<"a", Sep>> /\ a.baseURL.RawQuery = "" /\ a.baseURL.Fragment = ""
           /\ a.apiVersion = "v2" /\ a.legacyBehavior}

InitWith(inputs) ==
    /\ args \in inputs
    /\ client = NoClient
    /\ call = [k \in Calls |-> IdleCall]

Init == InitWith(FewArgs)

(* ------------------------------------------------------------------ *)
(* Construction and configuration                                     *)
(* ------------------------------------------------------------------ *)

\* line 68 written as "base := baseURL": the caller's URL is normalized in place
ConstructInPlace ==
    /\ client = NoClient
    /\ client' = NewRESTClient(args.baseURL, args.apiVersion, args.c, args.legacyBehavior)
    /\ args' = [args EXCEPT !.baseURL = client'.baseURL]
    /\ UNCHANGED call

\* a constructor that turns an address without a host away
ConstructValidating ==
    /\ client = NoClient
    /\ args.baseURL.Host # ""
    /\ client' = NewRESTClient(args.baseURL, args.apiVersion, args.c, args.legacyBehavior)
    /\ UNCHANGED <<args, call>>

Construct ==
    /\ client = NoClient
    /\ client' = NewRESTClient(args.baseURL, args.apiVersion, args.c, args.legacyBehavior)
    /\ UNCHANGED <<args, call>>

SetSync(b) ==
    /\ client # NoClient
    /\ client.Sync # b
    /\ client' = [client EXCEPT !.Sync = b]
    /\ UNCHANGED <<args, call>>

SetPollPeriod(d) ==
    /\ client # NoClient
    /\ client.PollPeriod # d
    /\ client' = [client EXCEPT !.PollPeriod = d]
    /\ UNCHANGED <<args, call>>

SetTimeout(d) ==
    /\ client # NoClient
    /\ client.Timeout # d
    /\ client' = [client EXCEPT !.Timeout = d]
    /\ UNCHANGED <<args, call>>

SetPoller(p) ==
    /\ client # NoClient
    /\ client.Poller # p
    /\ client' = [client EXCEPT !.Poller = p]
    /\ UNCHANGED <<args, call>>

(* ------------------------------------------------------------------ *)
(* A call chain: the builder, Do, the poller                           *)
(* ------------------------------------------------------------------ *)

\* Verb handing out one shared Request: a new call re-seeds every builder
\* that is still being configured
StartVerbShared(k, verb) ==
    /\ client # NoClient
    /\ call[k].pc = "Idle"
    /\ call' = [j \in Calls |->
                  IF j = k \/ call[j].pc = "Built"
                  THEN [call[j] EXCEPT !.pc = "Built", !.req = Verb(client, verb),
                                       !.csync = client.Sync, !.tuned = FALSE]
                  ELSE call[j]]
    /\ UNCHANGED <<args, client>>

StartVerb(k, verb) ==
    /\ client # NoClient
    /\ call[k].pc = "Idle"
    /\ call' = [call EXCEPT ![k] = [@ EXCEPT !.pc = "Built",
                                             !.req = Verb(client, verb),
                                             !.csync = client.Sync]]
    /\ UNCHANGED <<args, client>>

\* Operation switching the client, not the request, to asynchronous
StartOperationOnClient(k, name) ==
    /\ client # NoClient
    /\ call[k].pc = "Idle"
    /\ call' = [call EXCEPT ![k] = [@ EXCEPT !.pc = "Built",
                                             !.req = Operation(client, name)]]
    /\ client' = [client EXCEPT !.Sync = FALSE]
    /\ UNCHANGED args

StartOperation(k, name) ==
    /\ client # NoClient
    /\ call[k].pc = "Idle"
    /\ call' = [call EXCEPT ![k] = [@ EXCEPT !.pc = "Built",
                                             !.req = Operation(client, name)]]
    /\ UNCHANGED <<args, client>>

ChainSync(k, b) ==
    /\ call[k].pc = "Built"
    /\ call[k].req.sync # b
    /\ call' = [call EXCEPT ![k] = [@ EXCEPT !.req = Sync(@, b), !.tuned = TRUE]]
    /\ UNCHANGED <<args, client>>

ChainTimeout(k, d) ==
    /\ call[k].pc = "Built"
    /\ call[k].req.timeout # d
    /\ call' = [call EXCEPT ![k] = [@ EXCEPT !.req = Timeout(@, d)]]
    /\ UNCHANGED <<args, client>>

ChainPoller(k, p) ==
    /\ call[k].pc = "Built"
    /\ call[k].req.poller # p
    /\ call' = [call EXCEPT ![k] = [@ EXCEPT !.req = Poller(@, p)]]
    /\ UNCHANGED <<args, client>>

ChainNoPoll(k) ==
    /\ call[k].pc = "Built"
    /\ call[k].req.poller # "nil"
    /\ call' = [call EXCEPT ![k] = [@ EXCEPT !.req = NoPoll(@)]]
    /\ UNCHANGED <<args, client>>

\* Do sends the request
Do(k) ==
    /\ call[k].pc = "Built"
    /\ call' = [call EXCEPT ![k] = [@ EXCEPT !.pc = "Issued", !.out = @ + 1]]
    /\ UNCHANGED <<args, client>>

\* Do returns the last response to the caller; the builder is consumed
Return(c, state) == [c EXCEPT !.pc = state, !.result = c.resp,
                              !.req = NoRequest, !.id = ""]

\* the exchange ends with a response or an error; Do returns it or asks the poller
Respond(k, resp) ==
    /\ call[k].pc = "Issued"
    /\ resp.kind = "working" => call[k].polls < MaxPolls
    /\ call' = [call EXCEPT ![k] =
         IF ShouldPoll(@.req, resp)
         THEN [@ EXCEPT !.pc = "Polling", !.out = @ - 1, !.resp = resp,
                        !.id = resp.val, !.ret = NoReturn,
                        !.checked = -1, !.period = -1, !.elapsed = 0]
         ELSE Return([@ EXCEPT !.out = @ - 1, !.resp = resp, !.ret = NoReturn,
                               !.checked = -1, !.period = -1, !.elapsed = 0],
                     Outcome(resp))]
    /\ UNCHANGED <<args, client>>

\* the poller's refusal reported to the caller as a failure
StopAsFailure(c) ==
    [c EXCEPT !.pc = "Failed", !.ret = PollReturn(NoRequest, FALSE),
              !.result = Failure("err1"), !.req = NoRequest, !.id = ""]

\* the poller declined: Do returns the last status
Stop(c) == Return([c EXCEPT !.ret = PollReturn(NoRequest, FALSE)], "Stopped")

\* the poller supplied a request: Do sends it
Continue(c, next) == [c EXCEPT !.pc = "Issued", !.ret = PollReturn(next, TRUE),
                               !.req = next, !.out = @ + 1, !.polls = @ + 1]

\* DefaultPoll giving up after its first poll
DefaultPollCheckOnce(k) ==
    /\ call[k].pc = "Polling"
    /\ call[k].req.poller = "DefaultPoll"
    /\ call' = [call EXCEPT ![k] =
         IF DefaultPollDisabled(client) \/ @.polls >= 1
         THEN Stop([@ EXCEPT !.checked = client.PollPeriod])
         ELSE [@ EXCEPT !.pc = "Waiting", !.checked = client.PollPeriod]]
    /\ UNCHANGED <<args, client>>

\* DefaultPoll, lines 143-146
DefaultPollCheck(k) ==
    /\ call[k].pc = "Polling"
    /\ call[k].req.poller = "DefaultPoll"
    /\ call' = [call EXCEPT ![k] =
         IF DefaultPollDisabled(client)
         THEN Stop([@ EXCEPT !.checked = client.PollPeriod])
         ELSE [@ EXCEPT !.pc = "Waiting", !.checked = client.PollPeriod]]
    /\ UNCHANGED <<args, client>>

\* DefaultPoll, line 147: time.Sleep is entered
DefaultPollSleep(k) ==
    /\ call[k].pc = "Waiting"
    /\ call' = [call EXCEPT ![k] = [@ EXCEPT !.pc = "Sleeping",
                                             !.period = DefaultPollDelay(client),
                                             !.elapsed = 0]]
    /\ UNCHANGED <<args, client>>

\* the sleep of line 147 left out
SleepSkipped(elapsed, d) == TRUE

\* time.Sleep(d) returns once d has elapsed
SleepOver(elapsed, d) == elapsed >= d

Tick(k) ==
    /\ call[k].pc = "Sleeping"
    /\ ~SleepOver(call[k].elapsed, call[k].period)
    /\ call' = [call EXCEPT ![k] = [@ EXCEPT !.elapsed = @ + 1]]
    /\ UNCHANGED <<args, client>>

\* DefaultPoll, line 149, and the next round of Do
DefaultPollReturn(k) ==
    /\ call[k].pc = "Sleeping"
    /\ SleepOver(call[k].elapsed, call[k].period)
    /\ call' = [call EXCEPT ![k] = Continue(@, DefaultPollRequest(client, @.id))]
    /\ UNCHANGED <<args, client>>

\* a caller-supplied poll function declines
CustomPollStop(k) ==
    /\ call[k].pc = "Polling"
    /\ call[k].req.poller \in CustomPollers
    /\ call' = [call EXCEPT ![k] = Stop(@)]
    /\ UNCHANGED <<args, client>>

\* a caller-supplied poll function asks for the operation again, without delay
CustomPollContinue(k) ==
    /\ call[k].pc = "Polling"
    /\ call[k].req.poller \in CustomPollers
    /\ call' = [call EXCEPT ![k] =
                  Continue(@, Poller(Operation(client, @.id), @.req.poller))]
    /\ UNCHANGED <<args, client>>

Configure ==
    \/ \E b \in BOOLEAN : SetSync(b)
    \/ \E d \in PollPeriods : SetPollPeriod(d)
    \/ \E d \in Timeouts : SetTimeout(d)
    \/ \E p \in {"nil"} \cup CustomPollers : SetPoller(p)

\* the caller configures a builder
Chain(k) ==
    \/ \E b \in BOOLEAN : ChainSync(k, b)
    \/ \E d \in Timeouts : ChainTimeout(k, d)
    \/ \E p \in {"DefaultPoll"} \cup CustomPollers : ChainPoller(k, p)
    \/ ChainNoPoll(k)

Build(k) ==
    \/ \E verb \in Verbs : StartVerb(k, verb)
    \/ \E name \in OpNames : StartOperation(k, name)
    \/ Chain(k)

\* Do and the built-in poller
RunDefault(k) ==
    \/ Do(k)
    \/ \E resp \in Responses : Respond(k, resp)
    \/ DefaultPollCheck(k)
    \/ DefaultPollSleep(k)
    \/ Tick(k)
    \/ DefaultPollReturn(k)

Run(k) ==
    \/ RunDefault(k)
    \/ CustomPollStop(k)
    \/ CustomPollContinue(k)

\* one call chain, every verb and every builder option
Next ==
    \/ Construct
    \/ Configure
    \/ \E k \in OneCall : Build(k) \/ Run(k)

Spec == Init /\ [][Next]_vars

\* two interleaved call chains on one client, each begun by Post() and polled
\* by DefaultPoll
InitTwo == InitWith({a \in FewArgs : a.apiVersion = "v1"})

NextTwo ==
    \/ Construct
    \/ \E b \in BOOLEAN : SetSync(b)
    \/ \E d \in PollPeriods : SetPollPeriod(d)
    \/ \E k \in TwoCalls : StartVerb(k, "POST") \/ RunDefault(k)

SpecTwo == InitTwo /\ [][NextTwo]_vars

\* two builders made by Get() on one client and configured side by side
NextBuild ==
    \/ Construct
    \/ Configure
    \/ \E k \in TwoCalls : StartVerb(k, "GET") \/ Chain(k)

SpecBuild == InitTwo /\ [][NextBuild]_vars

\* every base address up to MaxPathLen; one call, begun by Get() or Operation
\* and answered at once by a result or an error
InitURL == InitWith({a \in Args : a.apiVersion = "v1" /\ ~a.legacyBehavior})

NextURL ==
    \/ Construct
    \/ Configure
    \/ \E k \in OneCall :
          \/ StartVerb(k, "GET")
          \/ \E name \in OpNames : StartOperation(k, name)
          \/ Do(k)
          \/ \E resp \in {Final} \cup {Failure(e) : e \in Errors} : Respond(k, resp)

SpecURL == InitURL /\ [][NextURL]_vars

\* one call begun by Post() on a client whose PollPeriod stays nonzero; the
\* thread of the call keeps running, every request is answered and slept time
\* passes
NextLive ==
    \/ Construct
    \/ \E b \in BOOLEAN : SetSync(b)
    \/ \E p \in {"nil"} \cup CustomPollers : SetPoller(p)
    \/ \E d \in PollPeriods \ {0} : SetPollPeriod(d)
    \/ \E k \in OneCall : StartVerb(k, "POST") \/ Run(k)

SpecLive == Init /\ [][NextLive]_vars /\ \A k \in OneCall : WF_vars(Run(k))

\* base addresses with and without a host: url.Parse accepts "/a?q=1" and
\* leaves Host empty, and nothing can be reached through such a base
AnyHostURLs == [Host : {"host", ""}, Path : Paths, RawQuery : Queries, Fragment : Fragments]

InitAnyHost ==
    InitWith([baseURL : AnyHostURLs, apiVersion : {"v1"}, c : Codecs,
              legacyBehavior : {FALSE}])

SpecAnyHost == InitAnyHost /\ [][NextURL]_vars

(* ------------------------------------------------------------------ *)
(* Properties                                                         *)
(* ------------------------------------------------------------------ *)

InPoller(c) == c.pc \in {"Polling", "Waiting", "Sleeping"}
Ended(c) == c.pc \in {"Complete", "Returned", "Stopped", "Failed"}
\* DefaultPoll returned "continue" and Do has sent the request it returned
PolledByDefault(c) == c.pc = "Issued" /\ c.ret.ok /\ c.period >= 0

\* C1: the poller is invoked on an in-progress response only for a request
\* whose sync flag is false; a request built by Verb while Client.Sync is true
\* (and not re-flagged by the caller) gets its in-progress status back as the
\* result, with no poll request ever issued.
C1_SyncNeverPolls ==
    \A k \in Calls :
        LET c == call[k] IN
        /\ InPoller(c) => ~c.req.sync
        /\ (c.csync /\ ~c.tuned) =>
              /\ c.polls = 0
              /\ ~InPoller(c)
              /\ c.pc # "Stopped"
              /\ (Ended(c) /\ c.resp.kind = "working") =>
                    (c.pc = "Returned" /\ c.result = c.resp)

C1_Witness ==
    \E k \in Calls :
        /\ call[k].csync /\ ~call[k].tuned
        /\ call[k].pc = "Returned"
        /\ call[k].result = Working("op2")

\* C2: every call chain has at most one request outstanding, none while its
\* poller runs; a poll request of DefaultPoll is sent only after the delay handed
\* to time.Sleep has elapsed in full; this holds for each of two interleaved chains.
C2_OnePollOutstanding ==
    \A k \in Calls :
        LET c == call[k] IN
        /\ c.out \in {0, 1}
        /\ c.out = 1 <=> c.pc = "Issued"
        /\ PolledByDefault(c) => (c.period >= 0 /\ c.elapsed >= c.period)
        /\ (PolledByDefault(c) /\ c.period = c.checked) => c.elapsed >= 1

C2_Witness ==
    /\ PolledByDefault(call["c1"])
    /\ call["c1"].elapsed = MaxPollPeriod
    /\ call["c2"].pc = "Sleeping"
    /\ call["c2"].polls = 1

\* C3: DefaultPoll invoked with PollPeriod zero returns (nil, false): no sleep is
\* entered, no request is created or sent, whatever the operation name.
C3_ZeroPeriodStops ==
    \A k \in Calls :
        LET c == call[k] IN
        c.checked = 0 =>
            /\ c.pc = "Stopped"
            /\ c.ret = PollReturn(NoRequest, FALSE)
            /\ c.period = -1
            /\ c.elapsed = 0
            /\ c.req = NoRequest
            /\ c.out = 0

C3_Witness ==
    \E k \in Calls :
        /\ call[k].checked = 0
        /\ call[k].pc = "Stopped"
        /\ call[k].resp = Working("op2")
        /\ call[k].polls = 1

\* C4: DefaultPoll with a nonzero PollPeriod has returned nothing while it
\* blocks; when it returns "continue" the full delay has elapsed (a full nonzero
\* period unless PollPeriod was changed between lines 143 and 147) and the
\* request it returns is a GET on "operations" for the name it was given.
C4_BlocksThenContinues ==
    \A k \in Calls :
        LET c == call[k] IN
        /\ c.pc \in {"Waiting", "Sleeping"} => (c.checked > 0 /\ c.ret = NoReturn)
        /\ PolledByDefault(c) =>
              /\ c.checked > 0
              /\ c.elapsed >= c.period
              /\ c.period = c.checked => c.elapsed >= c.checked
              /\ c.ret.req # NoRequest
              /\ c.ret.req = c.req
              /\ c.ret.req.verb = "GET"
              /\ c.ret.req.resource = "operations"
              /\ c.ret.req.resourceName = c.id
              /\ c.id \in OpNames

C4_Witness ==
    \E k \in Calls :
        /\ PolledByDefault(call[k])
        /\ call[k].checked = MaxPollPeriod
        /\ call[k].elapsed = MaxPollPeriod
        /\ call[k].id = "op2"

\* C5: for every configuration the client can be in and every name,
\* Operation(name) is a GET on "operations" for that name, with its sync flag
\* false and no poller.
C5_OperationShape ==
    client # NoClient =>
        \A name \in OpNames :
            LET r == Operation(client, name) IN
            /\ r.verb = "GET"
            /\ r.resource = "operations"
            /\ r.resourceName = name
            /\ ~r.sync
            /\ r.poller = "nil"

C5_Witness ==
    /\ client # NoClient
    /\ client.Sync
    /\ client.Poller \in CustomPollers
    /\ client.PollPeriod = 0
    /\ \E k \in Calls : call[k].pc = "Built" /\ call[k].req = Operation(client, "op2")

\* C6: for every configuration the client can be in, Verb(verb) carries the
\* verb, Client.Sync, Client.Timeout and as poller Client.Poller if it is set,
\* DefaultPoll otherwise.
C6_VerbCarriesConfig ==
    client # NoClient =>
        \A verb \in Verbs :
            LET r == Verb(client, verb) IN
            /\ r.verb = verb
            /\ r.sync = client.Sync
            /\ r.timeout = client.Timeout
            /\ r.poller = (IF client.Poller # "nil" THEN client.Poller ELSE "DefaultPoll")
            /\ r.poller # "nil"

C6_Witness ==
    /\ client # NoClient
    /\ client.Sync
    /\ client.Timeout = MaxTimeout
    /\ client.Poller \in CustomPollers
    /\ \E k \in Calls :
          /\ call[k].pc = "Built"
          /\ call[k].req = Verb(client, "DELETE")
          /\ call[k].req.poller \in CustomPollers

\* C7: a chain whose poller declined is in Stopped, has its last in-progress
\* status as result (not an error), has no request outstanding, and never moves
\* again.
C7_StoppedReturnsStatus ==
    /\ [](\A k \in Calls :
            LET c == call[k] IN
            /\ (c.ret = PollReturn(NoRequest, FALSE)) <=> (c.pc = "Stopped")
            /\ c.pc = "Stopped" =>
                  /\ c.resp.kind = "working"
                  /\ c.result = c.resp
                  /\ c.out = 0
                  /\ c.req = NoRequest)
    /\ [][\A k \in Calls : call[k].pc = "Stopped" => call'[k] = call[k]]_vars

C7_Witness ==
    \E k \in Calls :
        /\ call[k].pc = "Stopped"
        /\ call[k].checked = 0
        /\ call[k].result = Working("op1")

\* C8: an error of any request of a chain, the first or a poll, ends the chain
\* with exactly that error as the result; the poller is not asked.
C8_ErrorsPassThrough ==
    \A k \in Calls :
        LET c == call[k] IN
        /\ c.resp.kind = "error" => (c.pc = "Failed" /\ c.result = c.resp /\ c.out = 0)
        /\ c.pc = "Failed" => (c.resp.kind = "error" /\ c.result = c.resp)
        /\ c.result.kind = "error" => c.result = c.resp

C8_Witness ==
    \E k \in Calls :
        /\ call[k].pc = "Failed"
        /\ call[k].polls = MaxPolls
        /\ call[k].result = Failure("err2")

EndsInOneSep(path) ==
    /\ HasSuffix(path, <<Sep>>)
    /\ ~HasSuffix(path, <<Sep, Sep>>)

NoDuplicateSep(path) ==
    \A i \in 1..(Len(path) - 1) : ~(path[i] = Sep /\ path[i + 1] = Sep)

Constructed == client # NoClient
BarePath == ~HasSuffix(args.baseURL.Path, <<Sep>>)

\* C9 as stated: a base address whose path does not end in a separator yields
\* a base address that ends in exactly one separator and contains no two
\* adjacent separators.
C9_NoDuplicateAnywhere ==
    (Constructed /\ BarePath) =>
        /\ EndsInOneSep(client.baseURL.Path)
        /\ NoDuplicateSep(client.baseURL.Path)

\* C9 amended: a base address whose path does not end in a separator yields
\* that path with one separator appended, so it ends in exactly one separator;
\* it has adjacent separators only where the supplied path had them.
C9_OneSeparatorAppended ==
    (Constructed /\ BarePath) =>
        /\ client.baseURL.Path = args.baseURL.Path \o <<Sep>>
        /\ EndsInOneSep(client.baseURL.Path)
        /\ NoDuplicateSep(args.baseURL.Path) => NoDuplicateSep(client.baseURL.Path)
        /\ client.baseURL.Host = args.baseURL.Host

C9_Witness ==
    /\ Constructed
    /\ args.baseURL.Path = <<Sep, "a">>
    /\ client.baseURL.Path = <<Sep, "a", Sep>>

\* C10: the client's base address has no query string and no fragment, from
\* construction on, through every configuration change and every call.
C10_NoQueryNoFragment ==
    Constructed =>
        /\ client.baseURL.RawQuery = ""
        /\ client.baseURL.Fragment = ""

C10_Witness ==
    /\ Constructed
    /\ args.baseURL.RawQuery # ""
    /\ args.baseURL.Fragment # ""
    /\ client.Sync
    /\ client.PollPeriod = 0
    /\ \E k \in Calls : call[k].pc = "Complete" /\ call[k].req = NoRequest

Normalized(u) == HasSuffix(u.Path, <<Sep>>) /\ u.RawQuery = "" /\ u.Fragment = ""

\* C11: normalization is idempotent: an address that is already
\* slash-terminated with no query and no fragment is the client's base address
\* as it stands, and constructing a client from a client's base address yields
\* that same address.
C11_NormalizationIdempotent ==
    Constructed =>
        /\ Normalized(args.baseURL) => client.baseURL = args.baseURL
        /\ Normalized(client.baseURL)
        /\ NewRESTClient(client.baseURL, args.apiVersion, args.c,
                         args.legacyBehavior).baseURL = client.baseURL

C11_Witness ==
    /\ Constructed
    /\ args.baseURL.Path = <<"a", Sep>>
    /\ Normalized(args.baseURL)
    /\ client.baseURL = args.baseURL

\* C12: no step, the construction included, changes the URL the caller
\* handed to NewRESTClient: path, query and fragment stay what they were.
C12_CallerURLUntouched ==
    [][/\ args'.baseURL.Path = args.baseURL.Path
       /\ args'.baseURL.RawQuery = args.baseURL.RawQuery
       /\ args'.baseURL.Fragment = args.baseURL.Fragment
       /\ args' = args]_vars

C12_Witness ==
    /\ Constructed
    /\ args.baseURL.Path = <<"a", "a">>
    /\ args.baseURL.RawQuery # ""
    /\ args.baseURL.Fragment # ""
    /\ client.baseURL = [args.baseURL EXCEPT !.Path = <<"a", "a", Sep>>,
                                             !.RawQuery = "", !.Fragment = ""]

\* C13: builders are independent: a step that makes or configures one call's
\* builder leaves the other call's builder and the client as they were.
C13_BuildersIndependent ==
    [][\A k \in Calls :
          call'[k] # call[k] =>
              /\ client' = client
              /\ \A j \in Calls \ {k} : call'[j] = call[j]]_vars

C13_Witness ==
    /\ call["c1"].pc = "Built"
    /\ call["c2"].pc = "Built"
    /\ call["c2"].req = Verb(client, "GET")
    /\ call["c1"].req = NoPoll(Sync(Timeout(Verb(client, "GET"), MaxTimeout), TRUE))
    /\ client.Timeout = 0
    /\ ~client.Sync

ClientFields ==
    {"baseURL", "apiVersion", "LegacyBehavior", "Codec", "Client", "Poller",
     "Sync", "PollPeriod", "Timeout"}

\* C14: a step of a call chain (Verb and its short forms, Operation, Do,
\* DefaultPoll) leaves every field of the client as it was.
C14_CallsLeaveClientAlone ==
    [][(call' # call) =>
          /\ DOMAIN client' = DOMAIN client
          /\ \A f \in ClientFields : client'[f] = client[f]]_vars

C14_Witness ==
    /\ Constructed
    /\ DOMAIN client = ClientFields
    /\ client = [NewRESTClient(args.baseURL, args.apiVersion, args.c, args.legacyBehavior)
                    EXCEPT !.Sync = TRUE, !.Timeout = MaxTimeout, !.PollPeriod = 1]
    /\ \E k \in Calls :
          /\ call[k].pc = "Complete"
          /\ call[k].polls = MaxPolls

\* C15: APIVersion() is the version string handed to NewRESTClient, whatever
\* has been configured and called since.
C15_APIVersionKept ==
    Constructed => APIVersion(client) = args.apiVersion

C15_Witness ==
    /\ Constructed
    /\ args.apiVersion = "v2"
    /\ APIVersion(client) = "v2"
    /\ client.Sync
    /\ client.PollPeriod = 0
    /\ client.Timeout = MaxTimeout
    /\ client.Poller \in CustomPollers
    /\ \E k \in Calls : call[k].pc = "Stopped" /\ call[k].polls = 1

Malformed(u) == u.Host = ""

\* the base address lines 68-73 make of u
NormalizedCopy(u) ==
    [Host |-> u.Host,
     Path |-> IF Len(u.Path) > 0 /\ u.Path[Len(u.Path)] = Sep THEN u.Path
              ELSE u.Path \o <<Sep>>,
     RawQuery |-> "",
     Fragment |-> ""]

\* C16 as stated: a malformed base address is turned away, no client is made
\* of it.
C16_MalformedRejected ==
    Malformed(args.baseURL) => ~Constructed

\* C16 amended: NewRESTClient validates nothing and has no error to report: it
\* can be called with every base address, malformed or not, and returns a
\* client whose base address is the normalized copy of the one supplied.
C16_ConstructionNeverFails ==
    /\ ~Constructed => ENABLED Construct
    /\ Constructed => client.baseURL = NormalizedCopy(args.baseURL)

C16_Witness ==
    /\ Constructed
    /\ Malformed(args.baseURL)
    /\ args.baseURL.Path = <<"a">>
    /\ args.baseURL.RawQuery # ""
    /\ client.baseURL = [Host |-> "", Path |-> <<"a", Sep>>, RawQuery |-> "", Fragment |-> ""]

\* C17: the request DefaultPoll returns has DefaultPoll as its poller and is
\* asynchronous, whatever Client.Poller and Client.Sync are; sending it is
\* the one poll request that invocation adds to the chain.
C17_DefaultPollReinstalled ==
    /\ [](Constructed =>
            \A name \in OpNames :
                /\ DefaultPollRequest(client, name).poller = "DefaultPoll"
                /\ ~DefaultPollRequest(client, name).sync)
    /\ [](\A k \in Calls :
            PolledByDefault(call[k]) =>
                /\ call[k].req.poller = "DefaultPoll"
                /\ ~call[k].req.sync
                /\ call[k].out = 1)
    /\ [][\A k \in Calls :
            (call[k].pc = "Sleeping" /\ call'[k].pc # "Sleeping") =>
                /\ call'[k].pc = "Issued"
                /\ call'[k].polls = call[k].polls + 1
                /\ call'[k].req.poller = "DefaultPoll"]_vars

C17_Witness ==
    /\ Constructed
    /\ client.Poller \in CustomPollers
    /\ client.Sync
    /\ \E k \in Calls :
          /\ PolledByDefault(call[k])
          /\ call[k].polls = MaxPolls
          /\ call[k].req.poller = "DefaultPoll"

\* an asynchronous request with DefaultPoll as poller, sent or being polled for
InFlightDefault(c) ==
    /\ c.pc \in {"Issued", "Polling", "Waiting", "Sleeping"}
    /\ ~c.req.sync
    /\ c.req.poller = "DefaultPoll"

\* C18: with PollPeriod nonzero, an asynchronous call with DefaultPoll as
\* poller, once sent, leads to Complete with the final object as result, unless
\* a request fails (the server reports completion after MaxPolls polls at most).
C18_AsyncCallCompletes ==
    \A k \in OneCall :
        (InFlightDefault(call[k]) /\ call[k].polls = 0)
            ~> \/ call[k].pc = "Complete" /\ call[k].result = Final
               \/ call[k].pc = "Failed"

C18_Witness ==
    \E k \in OneCall :
        /\ call[k].pc = "Complete"
        /\ call[k].result = Final
        /\ call[k].polls = MaxPolls
        /\ call[k].csync = FALSE

\* C19: while PollPeriod is nonzero, DefaultPoll never declines: a chain of
\* asynchronous requests polled by DefaultPoll stays such a chain until it
\* ends in Complete or Failed, however many polls it has made.
C19_DefaultPollNeverStops ==
    /\ [](\A k \in Calls : call[k].checked # 0)
    /\ [][\A k \in Calls :
            InFlightDefault(call[k]) =>
                \/ InFlightDefault(call'[k])
                \/ call'[k].pc \in {"Complete", "Failed"}]_vars

C19_Witness ==
    \E k \in Calls :
        /\ InFlightDefault(call[k])
        /\ call[k].pc = "Waiting"
        /\ call[k].polls = MaxPolls - 1
        /\ call[k].polls >= 1

\* C20: each invocation of DefaultPoll tests PollPeriod as it is then: with
\* the field at zero the invocation returns (nil, false) and the chain stops
\* with no further request, also after earlier polls of the same chain;
\* otherwise it goes on to sleep.
C20_PeriodReadAtInvocation ==
    [][\A k \in Calls :
          (/\ call[k].pc = "Polling"
           /\ call[k].req.poller = "DefaultPoll"
           /\ call'[k] # call[k]) =>
              /\ call'[k].checked = client.PollPeriod
              /\ client.PollPeriod = 0 =>
                    /\ call'[k].pc = "Stopped"
                    /\ call'[k].ret = PollReturn(NoRequest, FALSE)
                    /\ call'[k].polls = call[k].polls
                    /\ call'[k].out = 0
              /\ client.PollPeriod # 0 =>
                    /\ call'[k].pc = "Waiting"
                    /\ call'[k].ret = NoReturn]_vars

C20_Witness ==
    /\ Constructed
    /\ client.PollPeriod = 0
    /\ \E k \in Calls :
          /\ call[k].pc = "Stopped"
          /\ call[k].checked = 0
          /\ call[k].polls >= 1
          /\ call[k].result = Working("op1")

====
